---- MODULE Spec2Model ----
(***************************************************************************)
(* Model of ProjetoEE.py: a Streamlit page that takes the cash flows of    *)
(* two investment alternatives (columns A and B of one table) and a        *)
(* discount rate (TMA), and on every widget event reruns the whole script: *)
(* NPV (VPL), IRR (TIR) and discounted payback of each alternative, then   *)
(* the comparison table.                                                   *)
(*                                                                         *)
(* Numbers are IEEE doubles in the program. Here a number is an exact      *)
(* rational, or one of the three special values +inf, -inf, NaN that the   *)
(* program produces (float('inf'), a division by zero inside numpy, an     *)
(* IRR with no root). Rounding error of finite doubles is not modelled.    *)
(***************************************************************************)
EXTENDS Integers, Sequences, FiniteSets, TLC

VARIABLES df, df_tma, vpl_a, tir_a, payback_a, vpl_b, tir_b, payback_b,
          resultado_comparacao, edits

vars == <<df, df_tma, vpl_a, tir_a, payback_a, vpl_b, tir_b, payback_b,
          resultado_comparacao, edits>>

(***************************************************************************)
(* Bounds of the model.                                                    *)
(***************************************************************************)
\* widget edits (cell, row added, row deleted, rate) explored from the default data
MaxEdits == 1
\* longest cash-flow table drawn as the input of the valuation functions
MaxLen == 3

(***************************************************************************)
(* Floating-point values: [k, n, d] with k in fin/inf/ninf/nan; a finite   *)
(* value is the reduced fraction n/d with d > 0.                           *)
(***************************************************************************)
Abs(i) == IF i < 0 THEN -i ELSE i

RECURSIVE GCD(_, _)
GCD(a, b) == IF b = 0 THEN a ELSE GCD(b, a % b)

Fin(n, d) ==
    LET s == IF d < 0 THEN -1 ELSE 1
        g == GCD(Abs(n), Abs(d))
    IN  [k |-> "fin", n |-> (s * n) \div g, d |-> (s * d) \div g]

NaN == [k |-> "nan", n |-> 0, d |-> 1]
PosInf == [k |-> "inf", n |-> 0, d |-> 1]
NegInf == [k |-> "ninf", n |-> 0, d |-> 1]
Zero == [k |-> "fin", n |-> 0, d |-> 1]
One == [k |-> "fin", n |-> 1, d |-> 1]

IsNaN(x) == x.k = "nan"
IsFinite(x) == x.k = "fin"

\* -1, 0 or 1; never applied to NaN
Sign(x) ==
    CASE x.k = "inf" -> 1
      [] x.k = "ninf" -> -1
      [] OTHER -> IF x.n > 0 THEN 1 ELSE IF x.n < 0 THEN -1 ELSE 0

SignedInf(s) == IF s < 0 THEN NegInf ELSE PosInf

FNeg(x) ==
    CASE x.k = "fin" -> [k |-> "fin", n |-> -x.n, d |-> x.d]
      [] x.k = "inf" -> NegInf
      [] x.k = "ninf" -> PosInf
      [] OTHER -> NaN

FAdd(x, y) ==
    IF IsNaN(x) \/ IsNaN(y) THEN NaN
    ELSE IF IsFinite(x) /\ IsFinite(y)
         THEN LET g == GCD(x.d, y.d)
              IN  Fin(x.n * (y.d \div g) + y.n * (x.d \div g), (x.d \div g) * y.d)
    ELSE IF IsFinite(x) THEN y
    ELSE IF IsFinite(y) THEN x
    ELSE IF x.k = y.k THEN x ELSE NaN

FMul(x, y) ==
    IF IsNaN(x) \/ IsNaN(y) THEN NaN
    ELSE IF IsFinite(x) /\ IsFinite(y)
         THEN LET g1 == GCD(Abs(x.n), y.d)
                  g2 == GCD(Abs(y.n), x.d)
              IN  [k |-> "fin", n |-> (x.n \div g1) * (y.n \div g2),
                                d |-> (x.d \div g2) * (y.d \div g1)]
    ELSE IF Sign(x) = 0 \/ Sign(y) = 0 THEN NaN
    ELSE SignedInf(Sign(x) * Sign(y))

\* IEEE division as numpy performs it: x/0 is +-inf or NaN, never an exception.
\* The zero divisors of the program are all +0.0.
FDiv(x, y) ==
    IF IsNaN(x) \/ IsNaN(y) THEN NaN
    ELSE IF IsFinite(y) /\ y.n = 0
         THEN IF Sign(x) = 0 THEN NaN ELSE SignedInf(Sign(x))
    ELSE IF IsFinite(x) /\ IsFinite(y)
         THEN FMul(x, IF y.n < 0 THEN [k |-> "fin", n |-> -y.d, d |-> -y.n]
                                  ELSE [k |-> "fin", n |-> y.d, d |-> y.n])
    ELSE IF IsFinite(x) THEN Zero
    ELSE IF IsFinite(y) THEN SignedInf(Sign(x) * Sign(y))
    ELSE NaN

\* x < y on floats: False as soon as one side is NaN
FLt(x, y) ==
    IF IsNaN(x) \/ IsNaN(y) THEN FALSE
    ELSE IF IsFinite(x) /\ IsFinite(y)
         THEN LET g == GCD(x.d, y.d)
              IN  x.n * (y.d \div g) < y.n * (x.d \div g)
    ELSE IF x.k = y.k THEN FALSE
    ELSE x.k = "ninf" \/ y.k = "inf"

FGt(x, y) == FLt(y, x)

RECURSIVE IPow(_, _)
IPow(b, e) == IF e = 0 THEN 1 ELSE b * IPow(b, e - 1)

\* base ** e for a finite base and an integer e >= 0; 0.0 ** 0 is 1.0
FPow(base, e) == [k |-> "fin", n |-> IPow(base.n, e), d |-> IPow(base.d, e)]

\* round(x, 2): inf and NaN pass through, ties go to the even cent
Round2(x) ==
    IF ~IsFinite(x) THEN x
    ELSE LET whole == x.n \div x.d
             rest == x.n % x.d
             cents == (100 * rest) \div x.d
             left == (100 * rest) % x.d
             up == \/ 2 * left > x.d
                   \/ 2 * left = x.d /\ (cents % 2 = 1)
         IN  Fin(100 * whole + cents + (IF up THEN 1 ELSE 0), 100)

(***************************************************************************)
(* The inputs: the table df (lines 14-38) and the rate df_tma (40-53).     *)
(* A column is a function from the row index 0..N-1 to the cell's value.   *)
(***************************************************************************)
Column(seq) == [t \in 0..(Len(seq) - 1) |-> seq[t + 1]]

\* data = {'A': [...], 'B': [...]}
data == [A |-> Column(<<-200, 100, 100, 100, 100>>),
         B |-> Column(<<-200, 50, 50, 50, 1000>>)]

\* df_tma = pd.DataFrame({...: [0.1]})
DefaultTMA == Fin(1, 10)

\* rates the user types into the TMA cell
Rates == {Fin(-2, 1), Fin(-1, 1), Fin(-1, 2), Zero, Fin(1, 10), One}

\* values the user types into a cell of the default table (whole amounts)
EditValues == {-100, 0, 100}

\* cell values of the tables drawn as inputs of the valuation functions
Values == {-2, 0, 1, 3}

NRows(col) == Cardinality(DOMAIN col)
LastIndex(col) == NRows(col) - 1

SetMax(S) == CHOOSE m \in S : \A x \in S : x <= m
SetMin(S) == CHOOSE m \in S : \A x \in S : m <= x

(***************************************************************************)
(* numpy_financial, as the script calls it.                                *)
(***************************************************************************)
\* mutant of pv: compounds forward instead of discounting back
pv_compounded(rate, nper, fv) == FMul(FNeg(fv), FPow(FAdd(One, rate), nper))

\* npf.pv(rate, nper, pmt=0, fv): -(fv + pmt*fact) / (1+rate)**nper with pmt = 0
pv(rate, nper, fv) == FDiv(FNeg(fv), FPow(FAdd(One, rate), nper))

\* npf.npv(rate, values): the sum over t of values[t] / (1+rate)**t
RECURSIVE npv_upto(_, _, _)
npv_upto(rate, values, t) ==
    LET term == FDiv(Fin(values[t], 1), FPow(FAdd(One, rate), t))
    IN  IF t = 0 THEN term ELSE FAdd(npv_upto(rate, values, t - 1), term)

npv(rate, values) == npv_upto(rate, values, LastIndex(values))

\* number of sign changes along the flows, zeros skipped
RECURSIVE SignChangesFrom(_, _, _)
SignChangesFrom(values, t, last) ==
    IF t > LastIndex(values) THEN 0
    ELSE LET s == IF values[t] > 0 THEN 1 ELSE IF values[t] < 0 THEN -1 ELSE 0
         IN  IF s = 0 THEN SignChangesFrom(values, t + 1, last)
             ELSE (IF last # 0 /\ s # last THEN 1 ELSE 0)
                  + SignChangesFrom(values, t + 1, s)

SignChanges(values) == SignChangesFrom(values, 0, 0)

\* the roots the solver may return, as representatives
TirVals == {Fin(1, 10), Fin(1, 2)}

\* npf.irr(values): the root of the NPV polynomial, found numerically by the
\* library. The model keeps what is certain: no sign change, no root (NaN);
\* one sign change, exactly one root; more, a root or none.
irr(values) ==
    IF SignChanges(values) = 0 THEN {NaN}
    ELSE IF SignChanges(values) = 1 THEN TirVals
    ELSE TirVals \cup {NaN}

(***************************************************************************)
(* discounted_payback_period (lines 56-97)                                 *)
(***************************************************************************)
\* cf_df['DiscountedCashFlows'] = npf.pv(rate, pmt=0, nper=index, fv=-flows)
RECURSIVE DiscountedUpTo(_, _, _)
DiscountedUpTo(rate, cash_flows, t) ==
    LET x == t :> pv(rate, t, FNeg(Fin(cash_flows[t], 1)))
    IN  IF t = 0 THEN x ELSE DiscountedUpTo(rate, cash_flows, t - 1) @@ x

DiscountedCashFlows(rate, cash_flows) ==
    DiscountedUpTo(rate, cash_flows, LastIndex(cash_flows))

\* np.cumsum of a pandas Series is Series.cumsum: a NaN entry stays NaN and is
\* skipped by the running sum
RECURSIVE RunningSum(_, _)
RunningSum(dcf, t) ==
    LET x == IF IsNaN(dcf[t]) THEN Zero ELSE dcf[t]
    IN  IF t = 0 THEN x ELSE FAdd(RunningSum(dcf, t - 1), x)

CumulativeDiscountedCashFlows(dcf) ==
    [t \in DOMAIN dcf |-> IF IsNaN(dcf[t]) THEN NaN ELSE RunningSum(dcf, t)]

\* mutant of negative_cash_flows: the comparison turned round
positive_cash_flows(cum) == {t \in DOMAIN cum : FGt(cum[t], Zero)}

\* cf_df[cf_df.CumulativeDiscountedCashFlows < 0], as its index
negative_cash_flows(cum) == {t \in DOMAIN cum : FLt(cum[t], Zero)}

\* mutant of final_full_year: the first negative period instead of the last
first_negative_year(negative) == SetMin(negative)

\* negative_cash_flows.index.values.max()
final_full_year(negative) == SetMax(negative)

\* mutant of fractional_yr: divides by the flow of the year itself
fractional_yr_same_year(cum, dcf, year) == FDiv(FNeg(cum[year]), dcf[year])

\* mutant of fractional_yr: the minus sign lost
fractional_yr_unsigned(cum, dcf, year) == FDiv(cum[year], dcf[year + 1])

\* -cum[final_full_year] / dcf[final_full_year + 1]
fractional_yr(cum, dcf, year) == FDiv(FNeg(cum[year]), dcf[year + 1])

discounted_payback_period(rate, cash_flows) ==
    LET dcf == DiscountedCashFlows(rate, cash_flows)
        cum == CumulativeDiscountedCashFlows(dcf)
        negative == negative_cash_flows(cum)
    IN  IF negative = {} THEN PosInf
        ELSE IF final_full_year(negative) = LastIndex(cash_flows) THEN PosInf
        ELSE FAdd(Fin(final_full_year(negative), 1),
                  fractional_yr(cum, dcf, final_full_year(negative)))

(***************************************************************************)
(* compare_alternatives (lines 100-110)                                    *)
(***************************************************************************)
Metrics(tir, vpl, payback) == [TIR |-> tir, VPL |-> vpl, Payback |-> payback]

\* mutant of compare_alternatives: the longer payback wins
compare_longer_payback(ta, va, pa, tb, vb, pb) ==
    [Alternativa_A |-> Metrics(ta, va, pa),
     Alternativa_B |-> Metrics(tb, vb, pb),
     Alternativa_Escolhida |->
        Metrics(IF FGt(ta, tb) THEN "A" ELSE "B",
                IF FGt(va, vb) THEN "A" ELSE "B",
                IF FGt(pa, pb) THEN "A" ELSE "B")]

compare_alternatives(ta, va, pa, tb, vb, pb) ==
    [Alternativa_A |-> Metrics(ta, va, pa),
     Alternativa_B |-> Metrics(tb, vb, pb),
     Alternativa_Escolhida |->
        Metrics(IF FGt(ta, tb) THEN "A" ELSE "B",
                IF FGt(va, vb) THEN "A" ELSE "B",
                IF FLt(pa, pb) THEN "A" ELSE "B")]

(***************************************************************************)
(* One run of the script (lines 113-139) on the table d and the rate r.    *)
(* ta, tb are the values npf.irr returns for the two columns.              *)
(***************************************************************************)
Run(d, r, ta, tb) ==
    /\ df' = d
    /\ df_tma' = r
    /\ vpl_a' = Round2(npv(r, d.A))
    /\ tir_a' = ta
    /\ payback_a' = Round2(discounted_payback_period(r, d.A))
    /\ vpl_b' = Round2(npv(r, d.B))
    /\ tir_b' = tb
    /\ payback_b' = Round2(discounted_payback_period(r, d.B))
    /\ resultado_comparacao' =
          compare_alternatives(tir_a', vpl_a', payback_a', tir_b', vpl_b', payback_b')

\* the state a run of the script leaves behind
Computed ==
    /\ vpl_a = Round2(npv(df_tma, df.A))
    /\ payback_a = Round2(discounted_payback_period(df_tma, df.A))
    /\ vpl_b = Round2(npv(df_tma, df.B))
    /\ payback_b = Round2(discounted_payback_period(df_tma, df.B))
    /\ resultado_comparacao =
          compare_alternatives(tir_a, vpl_a, payback_a, tir_b, vpl_b, payback_b)

\* npf.irr is a function: the same flows give the same value
IrrPairs(d) ==
    {p \in irr(d.A) \X irr(d.B) : d.A = d.B => p[1] = p[2]}

\* the IRR of the new table d, given the values already computed for df
IrrAfter(d) ==
    {p \in IrrPairs(d) : /\ d.A = df.A => p[1] = tir_a
                         /\ d.B = df.B => p[2] = tir_b}

(***************************************************************************)
(* The session. Init is the first run, on the default data.                *)
(***************************************************************************)
Init ==
    /\ df = data
    /\ df_tma = DefaultTMA
    /\ edits = 0
    /\ \E p \in IrrPairs(data) : tir_a = p[1] /\ tir_b = p[2]
    /\ Computed

\* the user overwrites one cell of the table
EditCell(col, row, v) ==
    /\ edits < MaxEdits
    /\ row \in DOMAIN df[col]
    /\ df[col][row] # v
    /\ edits' = edits + 1
    /\ LET d == [df EXCEPT ![col][row] = v]
       IN  \E p \in IrrAfter(d) : Run(d, df_tma, p[1], p[2])

\* the user adds a row at the end of the table ('+'), filling both cells
AddRow(a, b) ==
    /\ edits < MaxEdits
    /\ edits' = edits + 1
    /\ LET n == NRows(df.A)
           d == [A |-> [t \in 0..n |-> IF t = n THEN a ELSE df.A[t]],
                 B |-> [t \in 0..n |-> IF t = n THEN b ELSE df.B[t]]]
       IN  \E p \in IrrAfter(d) : Run(d, df_tma, p[1], p[2])

\* the user deletes the last row of the table. Deleting an inner row would
\* leave a gap in the index, and deleting the only row an empty table: the
\* valuation functions are specified for a non-empty series of contiguous
\* periods, and the model stays within it.
DeleteRow ==
    /\ edits < MaxEdits
    /\ NRows(df.A) > 1
    /\ edits' = edits + 1
    /\ LET n == NRows(df.A) - 2
           d == [A |-> [t \in 0..n |-> df.A[t]],
                 B |-> [t \in 0..n |-> df.B[t]]]
       IN  \E p \in IrrAfter(d) : Run(d, df_tma, p[1], p[2])

\* the user types another rate into the TMA cell
EditTMA(r) ==
    /\ edits < MaxEdits
    /\ r # df_tma
    /\ edits' = edits + 1
    /\ Run(df, r, tir_a, tir_b)

\* the user reruns the page without touching a widget
Rerun ==
    /\ edits' = edits
    /\ Run(df, df_tma, tir_a, tir_b)

Next ==
    \/ \E col \in {"A", "B"}, row \in 0..(NRows(df.A) - 1), v \in EditValues :
          EditCell(col, row, v)
    \/ \E a, b \in EditValues : AddRow(a, b)
    \/ DeleteRow
    \/ \E r \in Rates : EditTMA(r)
    \/ Rerun

Spec == Init /\ [][Next]_vars

(***************************************************************************)
(* The valuation functions on bounded inputs: the table is any table of up *)
(* to MaxLen rows the user may have typed, the rate any of Rates; the      *)
(* state is the one the script computed for it, and a rerun recomputes it. *)
(***************************************************************************)
Columns(V) == UNION {[0..(n - 1) -> V] : n \in 1..MaxLen}

\* the reference alternative of n periods: one outlay, then unit returns
Reference(n) == [t \in 0..(n - 1) |-> IF t = 0 THEN -2 ELSE 1]

InitEdited ==
    /\ \E a \in Columns(Values) : df = [A |-> a, B |-> Reference(NRows(a))]
    /\ df_tma \in Rates
    /\ edits = 0
    /\ \E p \in IrrPairs(df) : tir_a = p[1] /\ tir_b = p[2]
    /\ Computed

SpecEdited == InitEdited /\ [][Rerun]_vars

(***************************************************************************)
(* What the claims speak of, computed apart from the program's own steps:  *)
(* the discounted flows on the common denominator |1+rate|^N, as integers. *)
(***************************************************************************)
Cols == {"A", "B"}

Payback(c) == discounted_payback_period(df_tma, df[c])

\* dcf[t] * |1+rate|^N for 1+rate # 0, with rate = n/d
ScaledDcf(rate, s, t) ==
    LET b == rate.n + rate.d
        N == LastIndex(s)
        flip == IF b < 0 /\ N % 2 = 1 THEN -1 ELSE 1
    IN  s[t] * IPow(rate.d, t) * IPow(b, N - t) * flip

RECURSIVE ScaledCum(_, _, _)
ScaledCum(rate, s, t) ==
    IF t = 0 THEN ScaledDcf(rate, s, 0)
    ELSE ScaledCum(rate, s, t - 1) + ScaledDcf(rate, s, t)

\* the periods whose cumulative discounted cash flow is negative (1+rate # 0)
NegativePeriods(rate, s) == {t \in DOMAIN s : ScaledCum(rate, s, t) < 0}

\* the last period t* with cum[t*] < 0, when it is not the final period
InteriorLast(rate, s) ==
    {t \in NegativePeriods(rate, s) :
        /\ t < LastIndex(s)
        /\ \A u \in NegativePeriods(rate, s) : u <= t}

\* t* + (-cum[t*] / dcf[t*+1])
Interpolated(rate, s, t) ==
    Fin(t * ScaledDcf(rate, s, t + 1) - ScaledCum(rate, s, t),
        ScaledDcf(rate, s, t + 1))

AboveMinusOne(rate) == rate.n + rate.d > 0

\* C1: for every rate > -1 and every series whose last period t* of negative
\* cumulative discounted cash flow is not the final one, the function returns
\* exactly t* + (-cum[t*] / dcf[t*+1]), t* being the last such period.
C1_Interpolation ==
    \A c \in Cols :
        AboveMinusOne(df_tma) =>
            \A t \in InteriorLast(df_tma, df[c]) :
                /\ ScaledDcf(df_tma, df[c], t + 1) # 0
                /\ Payback(c) = Interpolated(df_tma, df[c], t)

\* a table where the last negative period of A is not the first one
C1_Witness ==
    /\ AboveMinusOne(df_tma)
    /\ df_tma # Zero
    /\ \E t \in InteriorLast(df_tma, df.A) :
          /\ t >= 1
          /\ 0 \in NegativePeriods(df_tma, df.A)
          /\ Payback("A") = Interpolated(df_tma, df.A, t)
          /\ Payback("A").d # 1

\* whether the cumulative discounted cash flow of the final period is negative.
\* At rate -1 the flows after period 0 are +-inf or NaN (x/0): the final sum is
\* negative exactly when it is -inf.
FinalCumNegative(rate, s) ==
    IF rate.n + rate.d # 0 THEN ScaledCum(rate, s, LastIndex(s)) < 0
    ELSE IF LastIndex(s) = 0 THEN s[0] < 0
    ELSE s[LastIndex(s)] < 0 /\ \A t \in 1..LastIndex(s) : s[t] <= 0

Scenario4 == Column(<<-1000, 10, 10, 10>>)

C3_NoPaybackNeeded ==
    \A c \in Cols :
        (AboveMinusOne(df_tma) /\ NegativePeriods(df_tma, df[c]) = {})
            => Payback(c) # PosInf

\* C4: when the IRR of A or of B is NaN, the alternative chosen for the TIR
\* row is reported as undefined: it is neither A nor B.
C4_UndefinedIRR ==
    (IsNaN(tir_a) \/ IsNaN(tir_b))
        => resultado_comparacao.Alternativa_Escolhida.TIR \notin {"A", "B"}

Other(label) == IF label = "A" THEN "B" ELSE "A"

\* C5: calling compare_alternatives with the two alternatives swapped swaps the
\* winner of every metric, ties included.
C5_Symmetry ==
    LET swapped == compare_alternatives(tir_b, vpl_b, payback_b,
                                        tir_a, vpl_a, payback_a)
    IN  \A m \in {"TIR", "VPL", "Payback"} :
            swapped.Alternativa_Escolhida[m]
                = Other(resultado_comparacao.Alternativa_Escolhida[m])

\* C6: with exactly one infinite payback the finite one is chosen; with both
\* infinite the Payback row is undefined (neither A nor B); otherwise the
\* strictly smaller payback is chosen.
C6_PaybackRule ==
    LET chosen == resultado_comparacao.Alternativa_Escolhida.Payback
    IN  /\ (payback_a = PosInf /\ IsFinite(payback_b)) => chosen = "B"
        /\ (IsFinite(payback_a) /\ payback_b = PosInf) => chosen = "A"
        /\ (payback_a = PosInf /\ payback_b = PosInf) => chosen \notin {"A", "B"}
        /\ (IsFinite(payback_a) /\ IsFinite(payback_b)) =>
              /\ FLt(payback_a, payback_b) => chosen = "A"
              /\ FLt(payback_b, payback_a) => chosen = "B"

DefaultA == df.A = data.A /\ df_tma = DefaultTMA
DefaultAB == df = data /\ df_tma = DefaultTMA

\* C7, as stated: the default alternative A at rate 0.1 has a discounted
\* payback, rounded to 2 decimals, of 2.74 periods.
C7_Payback274 == DefaultA => payback_a = Fin(274, 100)

\* C7, amended: the default alternative A at rate 0.1 has a discounted
\* payback, rounded to 2 decimals, of 2.35 periods.
C7_Payback235 == DefaultA => payback_a = Fin(235, 100)

C7_Witness == DefaultA /\ IsFinite(payback_a) /\ edits = 0

FLe(x, y) == x = y \/ FLt(x, y)

ConventionalShape(s) == s[0] < 0 /\ \A t \in DOMAIN s : t > 0 => s[t] >= 0

\* C8: for a series with one sign change (an outlay, then flows >= 0) and
\* rates 0 <= r1 <= r2, the payback at r1 is at most the payback at r2,
\* infinity being greater than every finite value.
C8_MonotoneInRate ==
    \A c \in Cols :
        (ConventionalShape(df[c]) /\ FLe(Zero, df_tma)) =>
            \A r2 \in Rates :
                FLe(df_tma, r2) =>
                    FLe(Payback(c), discounted_payback_period(r2, df[c]))

\* a conventional A whose payback is finite at the current rate, strictly later
\* at a higher rate and infinite at a still higher one
C8_Witness ==
    /\ ConventionalShape(df.A)
    /\ df_tma = Zero
    /\ IsFinite(Payback("A"))
    /\ \E r2, r3 \in Rates :
          /\ FLt(df_tma, r2) /\ FLt(r2, r3)
          /\ IsFinite(discounted_payback_period(r2, df.A))
          /\ FLt(Payback("A"), discounted_payback_period(r2, df.A))
          /\ discounted_payback_period(r3, df.A) = PosInf

\* C9: on the default data at rate 0.1, B has the higher NPV and the longer,
\* finite, discounted payback; the table chooses B for VPL and A for Payback.
C9_DefaultData ==
    DefaultAB =>
        /\ FGt(vpl_b, vpl_a)
        /\ IsFinite(payback_a) /\ IsFinite(payback_b)
        /\ FGt(payback_b, payback_a)
        /\ resultado_comparacao.Alternativa_Escolhida.VPL = "B"
        /\ resultado_comparacao.Alternativa_Escolhida.Payback = "A"

C9_Witness ==
    /\ DefaultAB
    /\ resultado_comparacao.Alternativa_Escolhida.VPL
          # resultado_comparacao.Alternativa_Escolhida.Payback

\* what the function holds when it reaches the interpolation step
AtInterpolation(c) ==
    LET dcf == DiscountedCashFlows(df_tma, df[c])
        cum == CumulativeDiscountedCashFlows(dcf)
        negative == negative_cash_flows(cum)
    IN  IF negative = {} \/ final_full_year(negative) = LastIndex(df[c])
        THEN {}
        ELSE {[year |-> final_full_year(negative),
               owed |-> FNeg(cum[final_full_year(negative)]),
               divisor |-> dcf[final_full_year(negative) + 1]]}

InterpolationBounds(c) ==
    \A i \in AtInterpolation(c) :
        /\ FLt(Zero, i.divisor)
        /\ FLe(i.owed, i.divisor)
        /\ FLt(Fin(i.year, 1), Payback(c))
        /\ FLe(Payback(c), Fin(i.year + 1, 1))

\* C10, as stated: whenever the interpolation step is reached the divisor
\* dcf[t*+1] is strictly positive and at least -cum[t*], and the payback p
\* returned satisfies t* < p <= t*+1, for every series and every rate.
C10_EveryRate == \A c \in Cols : InterpolationBounds(c)

\* C10, amended: the same for every series and every rate other than -1.
C10_RateNotMinusOne ==
    \A c \in Cols : df_tma # Fin(-1, 1) => InterpolationBounds(c)

\* the interpolation step reached at a rate below -1, with t* >= 1
C10_Witness ==
    /\ df_tma = Fin(-2, 1)
    /\ \E i \in AtInterpolation("A") : i.year >= 1 /\ IsFinite(Payback("A"))

====
